---- MODULE Spec2Model ----
(***************************************************************************)
(* Model of vidfilter_scripter/__init__.py: the Parameter scaler (affine   *)
(* map between integer slider positions and bounded float values, and the  *)
(* '{0:.2f}' label) and the MainWindow handlers that wire it to sliders,   *)
(* labels, reset buttons and the mpv 'vf set' command.                     *)
(*                                                                         *)
(* Python floats are IEEE-754 binary64.  They are modelled exactly: a      *)
(* float is a sign, a 53-bit significand and a binary exponent, and every  *)
(* arithmetic operation computes the exact result and rounds it to nearest *)
(* with ties to even, as the hardware does.  TLC integers are 32 bits wide, *)
(* so significands are kept as little-endian sequences of 15-bit limbs.    *)
(* Overflow to infinity and subnormals are outside the modelled range: no  *)
(* value of this program comes near them.                                  *)
(***************************************************************************)
EXTENDS Integers, Sequences, FiniteSets, TLC

(***************************************************************************)
(* Natural numbers of arbitrary size: <<l1, ..., ln>> is the sum of        *)
(* l_i * Base^(i-1), with l_n # 0; zero is << >>.                          *)
(***************************************************************************)
LimbBits == 15

Pow2(n) == 2^n

Base == Pow2(LimbBits)

Limb(a, i) == IF i <= Len(a) THEN a[i] ELSE 0

\* r, with a (and b, and c) evaluated first.  TLC evaluates an operand where
\* the operation first uses it, nested inside that operation; the elements of
\* a tuple are evaluated one after the other, which keeps the nesting flat.
After(a, r) == <<a, r>>[2]

After2(a, b, r) == <<a, b, r>>[3]

After3(a, b, c, r) == <<a, b, c, r>>[4]

Zeros(n) == [i \in 1..n |-> 0]

\* a without its leading zero limbs
RECURSIVE NatNorm(_)
NatNorm(a) ==
    IF Len(a) = 0 THEN a
    ELSE IF a[Len(a)] = 0 THEN NatNorm(SubSeq(a, 1, Len(a) - 1)) ELSE a

\* a Python int 0 <= i < 2^31
NatFromInt(i) == NatNorm(<<i % Base, (i \div Base) % Base, i \div (Base * Base)>>)

\* for a < 2^30
NatToInt(a) == After(a, Limb(a, 1) + Base * Limb(a, 2))

\* the comparison of the limbs i, i-1, ..., 1 of two numbers of equal length
RECURSIVE NatCmpFrom(_, _, _)
NatCmpFrom(a, b, i) ==
    IF i = 0 THEN 0
    ELSE IF a[i] < b[i] THEN -1
    ELSE IF a[i] > b[i] THEN 1
    ELSE NatCmpFrom(a, b, i - 1)

\* -1, 0 or 1 as a < b, a = b or a > b
NatCmp(a, b) ==
    After2(a, b,
        IF Len(a) < Len(b) THEN -1
        ELSE IF Len(a) > Len(b) THEN 1
        ELSE NatCmpFrom(a, b, Len(a)))

\* the limbs i, i+1, ... of a + b, with carry c into limb i
RECURSIVE NatAddFrom(_, _, _, _)
NatAddFrom(a, b, i, c) ==
    IF i > Len(a) /\ i > Len(b)
    THEN IF c = 0 THEN << >> ELSE <<c>>
    ELSE <<(Limb(a, i) + Limb(b, i) + c) % Base>>
            \o NatAddFrom(a, b, i + 1, (Limb(a, i) + Limb(b, i) + c) \div Base)

NatAdd(a, b) == After2(a, b, NatAddFrom(a, b, 1, 0))

\* the limbs i, i+1, ... of a - b, with borrow c from limb i
RECURSIVE NatSubFrom(_, _, _, _)
NatSubFrom(a, b, i, c) ==
    IF i > Len(a) THEN << >>
    ELSE IF a[i] - Limb(b, i) - c < 0
         THEN <<a[i] - Limb(b, i) - c + Base>> \o NatSubFrom(a, b, i + 1, 1)
         ELSE <<a[i] - Limb(b, i) - c>> \o NatSubFrom(a, b, i + 1, 0)

\* a - b, for a >= b
NatSub(a, b) == After2(a, b, NatNorm(NatSubFrom(a, b, 1, 0)))

\* the limbs i, i+1, ... of a * k, with carry c into limb i
RECURSIVE NatMulSmallFrom(_, _, _, _)
NatMulSmallFrom(a, k, i, c) ==
    IF i > Len(a)
    THEN IF c = 0 THEN << >> ELSE <<c>>
    ELSE <<(a[i] * k + c) % Base>>
            \o NatMulSmallFrom(a, k, i + 1, (a[i] * k + c) \div Base)

\* a * k, for 0 <= k < Base
NatMulSmall(a, k) ==
    After2(a, k, IF k = 0 THEN << >> ELSE NatMulSmallFrom(a, k, 1, 0))

\* a * b[j] * Base^(j-1)
NatMulTerm(a, b, j) == NatNorm(Zeros(j - 1) \o NatMulSmall(a, Limb(b, j)))

\* a * b for b of at most 4 limbs
NatMul(a, b) ==
    NatAdd(NatAdd(NatMulTerm(a, b, 1), NatMulTerm(a, b, 2)),
           NatAdd(NatMulTerm(a, b, 3), NatMulTerm(a, b, 4)))

\* a * 2^s
NatShl(a, s) ==
    After(a, IF Len(a) = 0 THEN a
             ELSE Zeros(s \div LimbBits) \o NatMulSmall(a, Pow2(s % LimbBits)))

\* floor(a / (Base^w * 2^k)), for k < LimbBits
NatShrBy(a, w, k) ==
    IF Len(a) <= w THEN << >>
    ELSE NatNorm([i \in 1..(Len(a) - w) |->
             (a[i + w] \div Pow2(k))
             + (Limb(a, i + w + 1) % Pow2(k)) * Pow2(LimbBits - k)])

\* floor(a / 2^s)
NatShr(a, s) == After(a, NatShrBy(a, s \div LimbBits, s % LimbBits))

\* the number of bits of a limb
SmallBitLen(l) == Cardinality({k \in 1..LimbBits : l >= Pow2(k - 1)})

NatBitLen(a) ==
    IF Len(a) = 0 THEN 0 ELSE (Len(a) - 1) * LimbBits + SmallBitLen(a[Len(a)])

NatIsOdd(a) == Len(a) > 0 /\ a[1] % 2 = 1

\* q or q + 1: q rounded up when the remainder compares as c to one half
NatRoundUp(q, c) ==
    IF c > 0 \/ (c = 0 /\ NatIsOdd(q)) THEN NatAdd(q, <<1>>) ELSE q

\* a / 2^s rounded to the nearest integer, ties to even, with q = floor(a / 2^s)
NatRoundQuot(a, s, q) ==
    After(q, NatRoundUp(q, NatCmp(NatSub(a, NatShl(q, s)), NatShl(<<1>>, s - 1))))

\* a * 2^e rounded to the nearest integer, ties to even (e may be negative)
NatRoundShift(a, e) ==
    After(a, IF e >= 0 THEN NatShl(a, e) ELSE NatRoundQuot(a, -e, NatShr(a, -e)))

\* One digit of a long division (Knuth, TAOCP 4.3.1 D): the largest q with
\* d * q <= r, for r < d * Base and a divisor whose top limb is at least
\* Base / 2.  The estimate qhat from the top limbs is q, q + 1 or q + 2.
QEstimate(r, d) ==
    (Limb(r, Len(d) + 1) * Base + Limb(r, Len(d))) \div d[Len(d)]

QFit(r, d, qhat) ==
    IF NatCmp(NatMulSmall(d, qhat), r) <= 0 THEN qhat
    ELSE IF NatCmp(NatMulSmall(d, qhat - 1), r) <= 0 THEN qhat - 1
    ELSE qhat - 2

QDigit(r, d) ==
    QFit(r, d, IF QEstimate(r, d) >= Base THEN Base - 1 ELSE QEstimate(r, d))

\* the quotient digit qd of the remainder r joins the quotient
DivStepWith(r, d, quot, qd) ==
    After2(r, qd, <<<<qd>> \o quot, NatSub(r, NatMulSmall(d, qd))>>)

DivStepOn(r, d, quot) == After(r, DivStepWith(r, d, quot, QDigit(r, d)))

\* one step of a long division: the next limb of the dividend joins the
\* remainder s[2], and the quotient digit of that joins the quotient s[1]
DivStep(limb, d, s) ==
    After(s, DivStepOn(NatNorm(<<limb>> \o s[2]), d, s[1]))

DivResult(s) == After(s, <<NatNorm(s[1]), s[2]>>)

\* <<floor(n / d), n mod d>> for a dividend of 8 limbs and a divisor of 4 limbs
\* whose top limb is at least Base / 2: the top 3 limbs of n are below d and
\* start as the remainder, the other 5 give one quotient digit each
NatDivMod(n, d) ==
    After2(n, d,
        DivResult(
            DivStep(n[1], d,
                DivStep(n[2], d,
                    DivStep(n[3], d,
                        DivStep(n[4], d,
                            DivStep(n[5], d, <<<< >>, SubSeq(n, 6, 8)>>)))))))

(***************************************************************************)
(* Python float (IEEE-754 binary64): (-1)^neg * m * 2^e, with m either     *)
(* zero (<< >>, e = 0) or of exactly MantBits bits.                        *)
(***************************************************************************)
MantBits == 53

FZero(neg) == [neg |-> neg, m |-> << >>, e |-> 0]

IsZero(a) == Len(a.m) = 0

\* (-1)^neg * q * 2^e for a q of MantBits bits, or of one more after a
\* rounding that carried (the low bit is zero then)
FPack(neg, q, e) ==
    After(q, IF NatBitLen(q) > MantBits
             THEN [neg |-> neg, m |-> NatShr(q, 1), e |-> e + 1]
             ELSE [neg |-> neg, m |-> q, e |-> e])

\* the float nearest to (-1)^neg * n * 2^e for an n of L bits
FRoundBits(neg, n, e, L) ==
    IF L <= MantBits
    THEN [neg |-> neg, m |-> NatShl(n, MantBits - L), e |-> e - (MantBits - L)]
    ELSE FPack(neg, NatRoundShift(n, MantBits - L), e + (L - MantBits))

\* the float nearest to (-1)^neg * n * 2^e, ties to even
FRound(neg, n, e) ==
    After(n, IF Len(n) = 0 THEN FZero(neg) ELSE FRoundBits(neg, n, e, NatBitLen(n)))

\* float(i) for a Python int i
FromInt(i) == FRound(i < 0, NatFromInt(IF i < 0 THEN -i ELSE i), 0)

FNeg(a) == [a EXCEPT !.neg = ~a.neg]

\* a + b from the significands x and y at the common exponent e, which
\* compare as c
FAddAligned(a, b, e, x, y, c) ==
    IF a.neg # b.neg /\ c = 0 THEN FZero(FALSE)
    ELSE FRound(IF a.neg = b.neg \/ c > 0 THEN a.neg ELSE b.neg,
                IF a.neg = b.neg THEN NatAdd(x, y)
                ELSE IF c > 0 THEN NatSub(x, y) ELSE NatSub(y, x),
                e)

FAddShifted(a, b, e, x, y) == After2(x, y, FAddAligned(a, b, e, x, y, NatCmp(x, y)))

FAddAt(a, b, e) == FAddShifted(a, b, e, NatShl(a.m, a.e - e), NatShl(b.m, b.e - e))

\* the exact sum of a and b, both nonzero, rounded once
FAddExact(a, b) == FAddAt(a, b, IF a.e < b.e THEN a.e ELSE b.e)

FAdd(a, b) ==
    After2(a, b,
        IF IsZero(a) /\ IsZero(b) THEN FZero(a.neg /\ b.neg)
        ELSE IF IsZero(a) THEN b
        ELSE IF IsZero(b) THEN a
        ELSE FAddExact(a, b))

FSub(a, b) == After(b, FAdd(a, FNeg(b)))

FMul(a, b) == After2(a, b, FRound(a.neg # b.neg, NatMul(a.m, b.m), a.e + b.e))

\* the quotient with a sticky bit for the remainder put below it
WithSticky(qr) ==
    After(qr, NatAdd(NatMulSmall(qr[1], 2), IF Len(qr[2]) = 0 THEN << >> ELSE <<1>>))

\* the shift that fills the 4 limbs of a divisor
DivShift == 4 * LimbBits - MantBits

\* a / b for b # 0: the significands are scaled to 8 limbs and to 4 full limbs,
\* the quotient of that has MantBits + 3 bits or more and is rounded once
FDiv(a, b) ==
    After2(a, b,
        IF IsZero(a) THEN FZero(a.neg # b.neg)
        ELSE FRound(a.neg # b.neg,
                    WithSticky(NatDivMod(NatShl(a.m, MantBits + 3 + DivShift),
                                         NatShl(b.m, DivShift))),
                    a.e - b.e - (MantBits + 4)))

FSign(a) == After(a, IF IsZero(a) THEN 0 ELSE IF a.neg THEN -1 ELSE 1)

\* -1, 0, 1 as a < b, a == b, a > b
FCmp(a, b) == FSign(FSub(a, b))

FEq(a, b) == FCmp(a, b) = 0

FLe(a, b) == FCmp(a, b) <= 0

\* a decimal literal of the source, num/den with den a power of ten: the
\* parser yields the float nearest to it
Lit(num, den) == FDiv(FromInt(num), FromInt(den))

IntOf(neg, n) == IF neg THEN -n ELSE n

\* round(x) of a float: the nearest int, ties to even
PyRound(a) == After(a, IntOf(a.neg, NatToInt(NatRoundShift(a.m, a.e))))

Digit(d) == <<"0", "1", "2", "3", "4", "5", "6", "7", "8", "9">>[d + 1]

RECURSIVE IntStr(_)
IntStr(n) == IF n < 10 THEN Digit(n) ELSE IntStr(n \div 10) \o Digit(n % 10)

\* h hundredths as a decimal with two places
Hundredths(neg, h) ==
    (IF neg THEN "-" ELSE "") \o IntStr(h \div 100) \o "."
        \o Digit((h % 100) \div 10) \o Digit(h % 10)

\* '{0:.2f}'.format(x): x to two decimals, correctly rounded from its exact
\* binary value (ties to even), the sign kept even when the digits are zero
Fixed2(a) ==
    After(a, Hundredths(a.neg, NatToInt(NatRoundShift(NatMulSmall(a.m, 100), a.e))))

PyFormat(fmt, a) == CASE fmt = "{0:.2f}" -> Fixed2(a)

(***************************************************************************)
(* Module constants: Range, RANGES, SLIDER_MAX.                            *)
(***************************************************************************)
Range(min, max, default, format) ==
    After3(min, max, default,
           [min |-> min, max |-> max, default |-> default, format |-> format])

\* the keys of RANGES in insertion order, the order dict iteration follows
VarOrder == <<"contrast", "brightness", "saturation", "gamma">>

Vars == {VarOrder[i] : i \in 1..Len(VarOrder)}

RANGES ==
    [contrast   |-> Range(Lit(0, 10), Lit(20, 10), Lit(10, 10), "{0:.2f}"),
     brightness |-> Range(Lit(-5, 10), Lit(5, 10), Lit(0, 10), "{0:.2f}"),
     saturation |-> Range(Lit(0, 10), Lit(30, 10), Lit(10, 10), "{0:.2f}"),
     gamma      |-> Range(Lit(1, 10), Lit(50, 10), Lit(10, 10), "{0:.2f}")]

SLIDER_MAX == 200

(***************************************************************************)
(* class Parameter                                                         *)
(***************************************************************************)
\* Parameter.__init__ with the offset left unscaled
Parameter_unscaled_offset(var, rng) ==
    LET range == FSub(rng.max, rng.min)
        scale == FDiv(FromInt(SLIDER_MAX), range)
    IN  IF IsZero(range)
        THEN [error |-> "ZeroDivisionError"]
        ELSE [error  |-> "",
              var    |-> var,
              value  |-> rng.default,
              range  |-> range,
              scale  |-> scale,
              offset |-> rng.min,
              format |-> rng.format]

\* Parameter.__init__: the new object, or the exception the division raises
Parameter(var, rng) ==
    LET range  == FSub(rng.max, rng.min)
        scale  == FDiv(FromInt(SLIDER_MAX), range)
        offset == FMul(rng.min, scale)
    IN  After2(rng, range,
            IF IsZero(range)
            THEN [error |-> "ZeroDivisionError"]
            ELSE After2(scale, offset,
                    [error  |-> "",
                     var    |-> var,
                     value  |-> rng.default,
                     range  |-> range,
                     scale  |-> scale,
                     offset |-> offset,
                     format |-> rng.format]))

\* slider_value with int(), which truncates toward zero, in the place of
\* round()
slider_value_int(self) ==
    LET a == FSub(FMul(self.value, self.scale), self.offset)
    IN  IntOf(a.neg, NatToInt(IF a.e >= 0 THEN NatShl(a.m, a.e) ELSE NatShr(a.m, -a.e)))

slider_value(self) ==
    After(self, PyRound(FSub(FMul(self.value, self.scale), self.offset)))

\* set_from_slider_value with the offset forgotten
set_from_slider_value_no_offset(self, value) ==
    After(self, [self EXCEPT !.value = FDiv(FromInt(value), self.scale)])

\* set_from_slider_value with the offset taken off instead of added
set_from_slider_value_minus_offset(self, value) ==
    After(self,
        [self EXCEPT !.value = FDiv(FSub(FromInt(value), self.offset), self.scale)])

set_from_slider_value(self, value) ==
    After(self,
        [self EXCEPT !.value = FDiv(FAdd(FromInt(value), self.offset), self.scale)])

label(self) == PyFormat(self.format, self.value)

(***************************************************************************)
(* class MainWindow.  The window `w` is a record of the fields below; the  *)
(* handlers are functions from window to window, so that a handler that    *)
(* calls another (a setValue that emits valueChanged) is one step.         *)
(*   parameters  self.parameters, var -> Parameter                         *)
(*   sliders     self.sliders, var -> the QSlider's value and maximum      *)
(*   labels      self.labels, var -> the QLabel's text                     *)
(*   connected   var -> whether the clicked/valueChanged slots of the      *)
(*               var's button and slider are connected                     *)
(*   issued      the argument lists handed to self.mpv.command by the      *)
(*               handler that ran last                                     *)
(*   vf          the arguments of the last 'vf set' handed to mpv, << >>   *)
(*               while there was none                                      *)
(* The last variable belongs to no window:                                 *)
(*   probe       one Parameter object outside any window, the range and    *)
(*               position it is exercised with, its method calls so far    *)
(*               and what the last slider_value() returned                 *)
(***************************************************************************)
VARIABLES parameters, sliders, labels, connected, issued, vf, probe

vars == <<parameters, sliders, labels, connected, issued, vf, probe>>

Window ==
    [parameters |-> parameters, sliders |-> sliders, labels |-> labels,
     connected |-> connected, issued |-> issued, vf |-> vf]

Becomes(w) ==
    /\ parameters' = w.parameters
    /\ sliders' = w.sliders
    /\ labels' = w.labels
    /\ connected' = w.connected
    /\ issued' = w.issued
    /\ vf' = w.vf

\* ':'.join(f'{p.var}={p.label()}' for p in self.parameters.values()), from
\* the i-th parameter on
RECURSIVE JoinFrom(_, _)
JoinFrom(params, i) ==
    LET p    == params[VarOrder[i]]
        item == p.var \o "=" \o label(p)
    IN  IF i = Len(VarOrder) THEN item ELSE item \o ":" \o JoinFrom(params, i + 1)

\* slot_slider_value_changed building the command before it stores the value
slot_slider_value_changed_stale(w, var, value) ==
    LET params == [w.parameters EXCEPT ![var] = set_from_slider_value(@, value)]
        args   == <<"vf", "set", "eq=" \o JoinFrom(w.parameters, 1)>>
    IN  [w EXCEPT !.parameters = params,
                  !.labels[var] = label(params[var]),
                  !.issued = Append(@, args),
                  !.vf = args]

slot_slider_value_changed(w, var, value) ==
    LET params == [w.parameters EXCEPT ![var] = set_from_slider_value(@, value)]
        args   == <<"vf", "set", "eq=" \o JoinFrom(params, 1)>>
    IN  [w EXCEPT !.parameters = params,
                  !.labels[var] = label(params[var]),
                  !.issued = Append(@, args),
                  !.vf = args]

\* QSlider.setMaximum, raising the maximum (the value is not clamped then)
QSlider_setMaximum(w, var, max) == [w EXCEPT !.sliders[var].maximum = max]

\* QSlider.setValue: the value is bounded to [0, maximum]; when it differs from
\* the current one it is stored and valueChanged is emitted, which runs the
\* connected slot before setValue returns
QSlider_setValue(w, var, value) ==
    LET v  == IF value < 0 THEN 0
              ELSE IF value > w.sliders[var].maximum THEN w.sliders[var].maximum
              ELSE value
        w1 == [w EXCEPT !.sliders[var].value = v]
    IN  IF v = w.sliders[var].value THEN w
        ELSE IF w.connected[var] THEN slot_slider_value_changed(w1, var, v)
        ELSE w1

\* slot_reset_var giving every parameter its default value
slot_reset_var_all(w, var) ==
    LET w1 == [w EXCEPT !.parameters =
                    [v \in Vars |-> [w.parameters[v] EXCEPT !.value = RANGES[v].default]]]
    IN  QSlider_setValue(w1, var, slider_value(w1.parameters[var]))

slot_reset_var(w, var) ==
    LET w1 == [w EXCEPT !.parameters[var].value = RANGES[var].default]
    IN  QSlider_setValue(w1, var, slider_value(w1.parameters[var]))

\* the loop of MainWindow.__init__ connecting the slots before it sets the slider
RECURSIVE InitLoop_connect_first(_, _)
InitLoop_connect_first(w, i) ==
    IF i > Len(VarOrder) THEN w
    ELSE LET var == VarOrder[i]
             w1  == [QSlider_setMaximum(w, var, SLIDER_MAX) EXCEPT !.connected[var] = TRUE]
             w2  == QSlider_setValue(w1, var, slider_value(w1.parameters[var]))
             w3  == [w2 EXCEPT !.labels[var] = label(w2.parameters[var])]
         IN  InitLoop_connect_first(w3, i + 1)

\* the loop of MainWindow.__init__ over RANGES.items(), from the i-th item on
RECURSIVE InitLoop(_, _)
InitLoop(w, i) ==
    IF i > Len(VarOrder) THEN w
    ELSE LET var == VarOrder[i]
             w1  == QSlider_setMaximum(w, var, SLIDER_MAX)
             w2  == QSlider_setValue(w1, var, slider_value(w1.parameters[var]))
             w3  == [w2 EXCEPT !.labels[var] = label(w2.parameters[var]),
                               !.connected[var] = TRUE]
         IN  InitLoop(w3, i + 1)

MainWindow_init(w) ==
    InitLoop([w EXCEPT !.parameters = [var \in Vars |-> Parameter(var, RANGES[var])]], 1)

(***************************************************************************)
(* The window as uic.loadUi leaves it: sliders with Qt's default maximum   *)
(* and a value the .ui file chooses, labels with the .ui file's text,      *)
(* nothing connected, no Parameter yet.                                    *)
(***************************************************************************)
QT_SLIDER_DEFAULT_MAX == 99

UiSliderValues == {0, QT_SLIDER_DEFAULT_MAX}

NoParameter == [error |-> "unset"]

Constructed == \A var \in Vars : connected[var]

\* the number of evenly spaced positions, besides 0, a user drags a slider to
Stops == 1

UserPositions == {(k * SLIDER_MAX) \div Stops : k \in 0..Stops}

NoProbe == [obj |-> NoParameter, calls |-> << >>]

Init ==
    /\ parameters = [var \in Vars |-> NoParameter]
    /\ sliders \in [Vars -> [value : UiSliderValues, maximum : {QT_SLIDER_DEFAULT_MAX}]]
    /\ labels = [var \in Vars |-> "TextLabel"]
    /\ connected = [var \in Vars |-> FALSE]
    /\ issued = << >>
    /\ vf = << >>
    /\ probe = NoProbe

\* MainWindow(options): the constructor runs once, before any event
Construct ==
    /\ ~Constructed
    /\ Becomes(MainWindow_init(Window))
    /\ UNCHANGED probe

\* the user moves the slider of var to another position: Qt stores it and
\* emits valueChanged(position)
SliderMoved(var, position) ==
    /\ Constructed
    /\ position # sliders[var].value
    /\ Becomes(QSlider_setValue([Window EXCEPT !.issued = << >>], var, position))
    /\ UNCHANGED probe

\* the user clicks the reset button of var
ResetClicked(var) ==
    /\ Constructed
    /\ Becomes(slot_reset_var([Window EXCEPT !.issued = << >>], var))
    /\ UNCHANGED probe

Next ==
    \/ Construct
    \/ \E var \in Vars, position \in UserPositions : SliderMoved(var, position)
    \/ \E var \in Vars : ResetClicked(var)

Spec == Init /\ [][Next]_vars

(***************************************************************************)
(* The claims about the window                                             *)
(***************************************************************************)
InRange(var) ==
    /\ FLe(RANGES[var].min, parameters[var].value)
    /\ FLe(parameters[var].value, RANGES[var].max)

\* C1: in every state reachable from window start by slider changes and reset
\* clicks, the value of each of the four parameters lies within [min, max] of
\* its range
C1_ValueWithinRange == Constructed => \A var \in Vars : InRange(var)

\* both ends of a range are reached: gamma at its maximum, brightness at its
\* minimum
C1_Witness ==
    /\ Constructed
    /\ sliders["gamma"].value = SLIDER_MAX
    /\ FEq(parameters["gamma"].value, RANGES["gamma"].max)
    /\ sliders["brightness"].value = 0
    /\ FEq(parameters["brightness"].value, RANGES["brightness"].min)

\* C2: once slot_reset_var has completed, with any valueChanged callback it
\* triggers, the parameter's label is the range's default formatted with the
\* parameter's format string
C2_ResetShowsDefault ==
    [][\A var \in Vars :
            ResetClicked(var) =>
                label(parameters'[var]) = PyFormat(RANGES[var].format, RANGES[var].default)]_vars

\* the filter string of the parameters, entry by entry
FilterOf(params) ==
    "eq=contrast=" \o label(params["contrast"])
        \o ":brightness=" \o label(params["brightness"])
        \o ":saturation=" \o label(params["saturation"])
        \o ":gamma=" \o label(params["gamma"])

\* C6: on every slider value change exactly one filter command is handed to
\* the player, eq=contrast=<v>:brightness=<v>:saturation=<v>:gamma=<v>, each <v>
\* the label of that parameter's value at the time: the new value of the
\* parameter whose slider changed, the existing values of the others
C6_OneCommandPerChange ==
    [][(Constructed /\ sliders' # sliders) =>
            /\ issued' = <<(<<"vf", "set", FilterOf(parameters')>>)>>
            /\ \A var \in Vars :
                    sliders'[var] = sliders[var] => parameters'[var] = parameters[var]]_vars

\* a change of the contrast slider after brightness was changed: the command
\* carries the new contrast and the existing brightness
C6_Witness ==
    /\ sliders["contrast"].value = SLIDER_MAX
    /\ sliders["brightness"].value = 0
    /\ issued = <<(<<"vf", "set", "eq=contrast=2.00:brightness=-0.50:saturation=1.00:gamma=1.00">>)>>

\* what a user can do to the widgets of one parameter
Updates ==
    {[op |-> "reset", position |-> 0]}
        \cup {[op |-> "slide", position |-> p] : p \in UserPositions}

\* the window after the update u of var has run to completion
Update(w, var, u) ==
    IF u.op = "reset" THEN slot_reset_var(w, var)
    ELSE QSlider_setValue(w, var, u.position)

\* C8: parameters are independent: a slider change or a reset of one
\* parameter leaves the value, the slider position and the label of the other
\* three unchanged, and two updates of different parameters give the same final
\* parameter values in either order
C8_ParametersIndependent ==
    Constructed =>
        \A i \in 1..Len(VarOrder), u1 \in Updates :
            LET v1 == VarOrder[i]
                w1 == Update(Window, v1, u1)
            IN  /\ \A v \in Vars \ {v1} :
                        /\ w1.parameters[v] = parameters[v]
                        /\ w1.sliders[v] = sliders[v]
                        /\ w1.labels[v] = labels[v]
                /\ \A j \in (i + 1)..Len(VarOrder), u2 \in Updates :
                        LET v2 == VarOrder[j]
                        IN  Update(w1, v2, u2).parameters
                                = Update(Update(Window, v2, u2), v1, u1).parameters

\* two parameters away from their defaults, so that an update of one has
\* something of the other to disturb
C8_Witness ==
    /\ Constructed
    /\ sliders["contrast"].value = SLIDER_MAX
    /\ sliders["gamma"].value = 0
    /\ labels["contrast"] = "2.00"
    /\ labels["gamma"] = "0.10"

\* C9: whenever a handler has completed, each label's text is label() of the
\* parameter's value and, once a filter command was sent, the last one carries
\* that label for the parameter; also after a reset that finds the slider at the
\* default's position
C9_DisplayMatchesValue ==
    Constructed =>
        /\ \A var \in Vars : labels[var] = label(parameters[var])
        /\ vf # << >> => vf[3] = FilterOf(parameters)

\* C10: after initialization and after every completed handler each slider's
\* position is slider_value() of the parameter's value and lies in
\* [0, SLIDER_MAX]; initialization leaves the sliders at the defaults' positions
\* (100 for contrast and brightness), changes no value and sends no command
C10_SliderMatchesValue ==
    [][/\ Constructed' =>
            \A var \in Vars :
                /\ sliders'[var].value = slider_value(parameters'[var])
                /\ sliders'[var].value \in 0..SLIDER_MAX
       /\ Construct =>
            /\ sliders'["contrast"].value = 100
            /\ sliders'["brightness"].value = 100
            /\ \A var \in Vars : FEq(parameters'[var].value, RANGES[var].default)
            /\ issued' = << >>
            /\ vf' = << >>]_vars

\* the gamma slider back at the default's position after a reset whose
\* valueChanged callback replaced the default by the position's value
C10_Witness ==
    /\ Constructed
    /\ sliders["gamma"].value = slider_value(Parameter("gamma", RANGES["gamma"]))
    /\ ~FEq(parameters["gamma"].value, RANGES["gamma"].default)

(***************************************************************************)
(* One Parameter object on its own: Parameter(var, rng) for a range drawn   *)
(* from TestRanges, then at most MaxCalls calls of set_from_slider_value    *)
(* and slider_value in alternation.  The first set_from_slider_value gets   *)
(* the position probe.arg, a later one the position the slider_value()      *)
(* before it returned.                                                      *)
(***************************************************************************)
\* min = max: the range has no extent
DEGENERATE == Range(Lit(10, 10), Lit(10, 10), Lit(10, 10), "{0:.2f}")

\* a range below zero with bounds that are no binary fractions
NEGATIVE == Range(Lit(-30, 10), Lit(-26, 10), Lit(-30, 10), "{0:.2f}")

\* a range far from zero: 2^60 .. 2^60 + 1024, whose offset is so large that
\* adding a slider position to it rounds the position to a multiple of 32
DISTANT ==
    LET min == FMul(FromInt(Pow2(30)), FromInt(Pow2(30)))
    IN  Range(min, FAdd(min, FromInt(1024)), min, "{0:.2f}")

Configured == {RANGES[var] : var \in Vars}

TestRanges == Configured \cup {DEGENERATE, NEGATIVE, DISTANT}

\* the number of method calls made on the object after its construction
MaxCalls == 2

Last(calls) == IF calls = << >> THEN "" ELSE calls[Len(calls)]

InitFn ==
    /\ parameters = [var \in Vars |-> NoParameter]
    /\ sliders = [var \in Vars |-> [value |-> 0, maximum |-> QT_SLIDER_DEFAULT_MAX]]
    /\ labels = [var \in Vars |-> "TextLabel"]
    /\ connected = [var \in Vars |-> FALSE]
    /\ issued = << >>
    /\ vf = << >>
    /\ probe \in [rng : TestRanges, arg : 0..SLIDER_MAX, obj : {NoParameter},
                  calls : {<< >>}, result : {0}]

UNCHANGED_window == UNCHANGED <<parameters, sliders, labels, connected, issued, vf>>

\* obj = Parameter('probe', rng)
ProbeNew ==
    /\ probe.calls = << >>
    /\ probe' = [probe EXCEPT !.obj = Parameter("probe", probe.rng),
                              !.calls = <<"__init__">>]
    /\ UNCHANGED_window

\* obj.set_from_slider_value(position)
ProbeSet ==
    /\ probe.calls # << >>
    /\ probe.obj.error = ""
    /\ Len(probe.calls) <= MaxCalls
    /\ Last(probe.calls) # "set_from_slider_value"
    /\ LET position == IF Last(probe.calls) = "slider_value" THEN probe.result
                       ELSE probe.arg
       IN  probe' = [probe EXCEPT !.obj = set_from_slider_value(@, position),
                                  !.calls = Append(@, "set_from_slider_value")]
    /\ UNCHANGED_window

\* result = obj.slider_value()
ProbeGet ==
    /\ probe.calls # << >>
    /\ probe.obj.error = ""
    /\ Len(probe.calls) <= MaxCalls
    /\ Last(probe.calls) # "slider_value"
    /\ probe' = [probe EXCEPT !.result = slider_value(probe.obj),
                              !.calls = Append(@, "slider_value")]
    /\ UNCHANGED_window

NextFn == ProbeNew \/ ProbeSet \/ ProbeGet

SpecFn == InitFn /\ [][NextFn]_vars

(***************************************************************************)
(* The claims about one Parameter                                          *)
(***************************************************************************)
JustBuilt == probe.calls = <<"__init__">>

JustSet == probe.calls = <<"__init__", "set_from_slider_value">>

PositionBack == probe.calls = <<"__init__", "set_from_slider_value", "slider_value">>

ValueBack == probe.calls = <<"__init__", "slider_value", "set_from_slider_value">>

FLt(a, b) == FCmp(a, b) < 0

FAbs(a) == [a EXCEPT !.neg = FALSE]

\* C3 as stated: for every range with min < max and every position p in
\* [0, SLIDER_MAX], set_from_slider_value(p) and then slider_value() give a
\* position within 1 of p
C3_RoundTripWithinOne ==
    (PositionBack /\ FLt(probe.rng.min, probe.rng.max)) =>
        probe.result - probe.arg \in {-1, 0, 1}

\* C3 as amended: for each of the four ranges of RANGES and every position p
\* in [0, SLIDER_MAX], set_from_slider_value(p) and then slider_value() give p
\* itself, hence a position within 1 of p
C3_RoundTripConfigured ==
    (PositionBack /\ probe.rng \in Configured) => probe.result = probe.arg

\* the gamma range at a position whose value is no short decimal
C3_Witness ==
    /\ PositionBack
    /\ probe.rng = RANGES["gamma"]
    /\ probe.arg = 37
    /\ probe.result = 37

\* the tolerance of a comparison of floats, math.isclose's 1e-09
Tolerance == Lit(1, 1000000000)

\* C4: for every range, from the value equal to the default, slider_value()
\* and then set_from_slider_value() of that position leave a value equal to the
\* default up to floating-point tolerance
C4_DefaultSurvivesRoundTrip ==
    ValueBack =>
        FLe(FAbs(FSub(probe.obj.value, probe.rng.default)), Tolerance)

\* C5 as stated: for every range set_from_slider_value(0) gives the range's
\* minimum and set_from_slider_value(SLIDER_MAX) its maximum
C5_EndsAreMinAndMax ==
    (JustSet /\ FLt(probe.rng.min, probe.rng.max)) =>
        /\ probe.arg = 0 => FEq(probe.obj.value, probe.rng.min)
        /\ probe.arg = SLIDER_MAX => FEq(probe.obj.value, probe.rng.max)

\* C5 as amended: for each of the four ranges of RANGES
\* set_from_slider_value(0) gives the range's minimum and
\* set_from_slider_value(SLIDER_MAX) its maximum; for contrast the positions 0,
\* 100 and 200 give 0.0, 1.0 and 2.0, labelled "0.00", "1.00" and "2.00"
C5_ConfiguredEnds ==
    (JustSet /\ probe.rng \in Configured) =>
        /\ probe.arg = 0 => probe.obj.value = probe.rng.min
        /\ probe.arg = SLIDER_MAX => probe.obj.value = probe.rng.max
        /\ probe.rng = RANGES["contrast"] =>
            /\ probe.arg = 0 =>
                 FEq(probe.obj.value, FromInt(0)) /\ label(probe.obj) = "0.00"
            /\ probe.arg = 100 =>
                 FEq(probe.obj.value, FromInt(1)) /\ label(probe.obj) = "1.00"
            /\ probe.arg = 200 =>
                 FEq(probe.obj.value, FromInt(2)) /\ label(probe.obj) = "2.00"

\* the gamma range, whose minimum 0.1 and offset are no binary fractions, at
\* the top position
C5_Witness ==
    /\ JustSet
    /\ probe.rng = RANGES["gamma"]
    /\ probe.arg = SLIDER_MAX
    /\ label(probe.obj) = "5.00"

\* C7: Parameter(var, rng) sets scale = SLIDER_MAX / (max - min), offset =
\* min * scale and value = default, and raises (a division by zero) if and only
\* if max == min; each of the four ranges of RANGES builds without error
C7_InitScalesOrFails ==
    JustBuilt =>
        /\ probe.obj.error = "ZeroDivisionError" <=> FEq(probe.rng.max, probe.rng.min)
        /\ probe.rng \in Configured => probe.obj.error = ""
        /\ probe.obj.error = "" =>
            /\ probe.obj.value = probe.rng.default
            /\ probe.obj.scale
                 = FDiv(FromInt(SLIDER_MAX), FSub(probe.rng.max, probe.rng.min))
            /\ probe.obj.offset = FMul(probe.rng.min, probe.obj.scale)
        /\ probe.rng = RANGES["brightness"] =>
            /\ FEq(probe.obj.scale, FromInt(200))
            /\ FEq(probe.obj.offset, FromInt(-100))

\* the range without extent, whose construction raised
C7_Witness ==
    /\ JustBuilt
    /\ probe.rng = DEGENERATE
    /\ probe.obj.error = "ZeroDivisionError"

====
